---- MODULE Spec2Model ----
(***************************************************************************)
(* Model of db/connector2.py, class DatabaseConnector: the interactive     *)
(* ODBC connection helper (DSN selection, credential prompts, bounded      *)
(* retry loop, query_dataframe, close).                                    *)
(*                                                                         *)
(* Strings that the code transforms (prompt answers, DSN names, user       *)
(* names, passwords, the connection string) are sequences of one-character *)
(* strings, so that strip(), lower(), int() and the f-string building the  *)
(* connection string are computed, not assumed.                            *)
(*                                                                         *)
(* The driver (pyodbc), the terminal and pandas are the environment: their *)
(* outcomes are nondeterministic choices.                                  *)
(***************************************************************************)
EXTENDS Integers, Sequences, FiniteSets, TLC

VARIABLES
    dsn,                \* self.dsn
    username,           \* self.username
    password,           \* self.password
    conn,               \* self.conn   (None or a connection id)
    cursor,             \* self.cursor (None or the id of the cursor's connection)
    sources,            \* what pyodbc.dataSources() enumerates
    pc,                 \* position of the running call ("idle": no call running)
    attempts,           \* local `attempts` of connect
    max_attempts,       \* argument of the running connect
    allow_change_dsn,   \* argument of the running connect
    reprompt_username,  \* argument of the running connect
    ret,                \* outcome of the last finished call
    log,                \* records the last step appended to the log
    logged,             \* number of records the running/last call logged, by kind
    drvCalls,           \* driver / pandas calls the last step made
    called,             \* number of driver calls of the running/last call, by operation
    prompts,            \* number of prompts of the running/last call, by kind
    saidNo,             \* the user answered "n" to a retry question of the running/last call
    openConns,          \* driver side: connections opened and not closed
    nextId,             \* driver side: id of the next connection object
    ncalls              \* number of API calls made on this manager

vars == << dsn, username, password, conn, cursor, sources, pc, attempts,
           max_attempts, allow_change_dsn, reprompt_username, ret, log, logged,
           drvCalls, called, prompts, saidNo, openConns, nextId, ncalls >>

(***************************************************************************)
(* Bounds of the model.                                                    *)
(***************************************************************************)
MaxAttemptsArg == 2     \* max_attempts of a connect that is the manager's first call
MaxAttemptsAgain == 1   \* max_attempts of a connect that follows other calls
MaxCalls == 3           \* API calls (connect / query_dataframe / close) per manager
MaxSelectInputs == 2    \* selector prompts of one connect call before which an
                        \* invalid line can still be typed

None == 0               \* Python None for self.conn / self.cursor

(***************************************************************************)
(* String helpers: str.strip, str.lower, int(str).                         *)
(***************************************************************************)
Upper == << "A","B","C","D","E","F","G","H","I","J","K","L","M",
            "N","O","P","Q","R","S","T","U","V","W","X","Y","Z" >>
Lower == << "a","b","c","d","e","f","g","h","i","j","k","l","m",
            "n","o","p","q","r","s","t","u","v","w","x","y","z" >>
Digits == << "0","1","2","3","4","5","6","7","8","9" >>
Whitespace == { " ", "\t", "\n", "\r" }

IndexIn(c, table) == CHOOSE i \in 1..Len(table) : table[i] = c

LowerChar(c) ==
    IF \E i \in 1..Len(Upper) : Upper[i] = c THEN Lower[IndexIn(c, Upper)] ELSE c

\* str.lower()
StrLower(s) == [i \in 1..Len(s) |-> LowerChar(s[i])]

\* str.strip(): drop leading and trailing whitespace
StrStrip(s) ==
    LET nonws == { i \in 1..Len(s) : s[i] \notin Whitespace }
    IN  IF nonws = {} THEN << >>
        ELSE LET lo == CHOOSE i \in nonws : \A j \in nonws : i <= j
                 hi == CHOOSE i \in nonws : \A j \in nonws : j <= i
             IN  SubSeq(s, lo, hi)

IsDigit(c) == \E i \in 1..Len(Digits) : Digits[i] = c
DigitVal(c) == IndexIn(c, Digits) - 1

RECURSIVE DigitsVal(_)
DigitsVal(s) ==
    IF s = << >> THEN 0
    ELSE 10 * DigitsVal(SubSeq(s, 1, Len(s) - 1)) + DigitVal(s[Len(s)])

\* int(str): surrounding whitespace and one sign are accepted, anything
\* else raises ValueError.
IntParse(s) ==
    LET t    == StrStrip(s)
        sgn  == IF t # << >> /\ t[1] \in {"+", "-"} THEN t[1] ELSE ""
        body == IF sgn = "" THEN t ELSE Tail(t)
    IN  IF body # << >> /\ \A i \in 1..Len(body) : IsDigit(body[i])
        THEN [ok |-> TRUE,
              val |-> IF sgn = "-" THEN 0 - DigitsVal(body) ELSE DigitsVal(body)]
        ELSE [ok |-> FALSE, val |-> 0]

(***************************************************************************)
(* The environment's inputs.                                               *)
(***************************************************************************)
DsnA == << "A" >>
DsnB == << "B" >>
\* list(pyodbc.dataSources().items()): (name, driver) pairs
SourceLists == { << >>, << <<DsnA, "drvA">> >>, << <<DsnA, "drvA">>, <<DsnB, "drvB">> >> }

UsernameInputs == { << " ", "v", " " >> }
PasswordInputs == { << "p" >>, << "q" >> }
RetryInputs    == { << >>, << "n" >>, << " ", "N", " " >>, << "y" >>, << "n", "o" >> }
ChangeInputs   == { << >>, << "y" >>, << "Y", " " >>, << "n" >>, << "y", "e", "s" >> }
SelectInputs   == { << "0" >>, << " ", "1" >>, << "2" >>, << "-", "1" >>, << "a", "b", "c" >>, << >> }
Queries        == { "SELECT 1" }

PromptKinds == { "retry", "change", "select", "username", "password" }
NoPrompts == [k \in PromptKinds |-> 0]
Prompted(p, k) == [p EXCEPT ![k] = @ + 1]

\* The log sink and the driver are write-only for the program: a step's
\* records / calls are kept for that step, and counted for the whole call.
AttemptErrors == { "ODBC error on attempt", "Unexpected error on attempt" }
LogKinds == { "User selected DSN", "Attempting connection", "Connected",
              "attempt failed",
              "Unable to change DSN after failure",
              "Exhausted connection attempts without success.",
              "Cursor closed.", "Connection closed.", "Error closing resources" }
DriverOps == { "dataSources", "connect", "cursor", "read_sql", "cursor.close", "conn.close" }

\* what a log record is counted as: its message, the two attempt errors
\* (lines 98 and 100) together
LogKind(rec) == IF rec[2] \in AttemptErrors THEN "attempt failed" ELSE rec[2]
NoneLogged == [k \in LogKinds |-> 0]
NoneCalled == [k \in DriverOps |-> 0]
Logged(cnt, recs) ==
    [k \in LogKinds |-> cnt[k] + Cardinality({ i \in 1..Len(recs) : LogKind(recs[i]) = k })]
Called(cnt, calls) ==
    [k \in DriverOps |-> cnt[k] + Cardinality({ i \in 1..Len(calls) : calls[i][1] = k })]

NoRet == [kind |-> "none", conn |-> None, cursor |-> None]

(***************************************************************************)
(* The connection string of connect, line 88.                              *)
(***************************************************************************)
\* user name and password in each other's place
ConnStr_Mutant(d, u, p) ==
    << "D","S","N","=" >> \o d \o << ";","U","I","D","=" >> \o p
        \o << ";","P","W","D","=" >> \o u

ConnStr(d, u, p) ==
    << "D","S","N","=" >> \o d \o << ";","U","I","D","=" >> \o u
        \o << ";","P","W","D","=" >> \o p

(***************************************************************************)
(* Initial states: the manager as __init__ leaves it.  The DSN is either   *)
(* the constructor argument (which need not be an enumerated source) or    *)
(* the one _select_dsn returned, which logs the selection; user name and   *)
(* password are the constructor's arguments.                               *)
(***************************************************************************)
Init ==
    /\ sources \in SourceLists
    /\ \/ /\ dsn = DsnA
          /\ log = << >>
          /\ drvCalls = << >>
          /\ prompts = NoPrompts
       \/ /\ \E i \in 1..Len(sources) : dsn = sources[i][1]
          /\ log = << << "info", "User selected DSN", dsn >> >>
          /\ drvCalls = << << "dataSources" >> >>
          /\ prompts = Prompted(NoPrompts, "select")
    /\ username = << "u" >>
    /\ password = << "p" >>
    /\ conn = None
    /\ cursor = None
    /\ pc = "idle"
    /\ attempts = 0
    /\ max_attempts = 0
    /\ allow_change_dsn = FALSE
    /\ reprompt_username = FALSE
    /\ ret = NoRet
    /\ logged = Logged(NoneLogged, log)
    /\ called = Called(NoneCalled, drvCalls)
    /\ saidNo = FALSE
    /\ openConns = {}
    /\ nextId = 1
    /\ ncalls = 0

(***************************************************************************)
(* What a step writes to the log and asks of the driver.                   *)
(***************************************************************************)
\* a step inside a call
Emit(recs, calls) ==
    /\ log' = recs
    /\ logged' = Logged(logged, recs)
    /\ drvCalls' = calls
    /\ called' = Called(called, calls)

\* the first step of a call
EmitFirst(recs, calls) ==
    /\ log' = recs
    /\ logged' = Logged(NoneLogged, recs)
    /\ drvCalls' = calls
    /\ called' = Called(NoneCalled, calls)

(***************************************************************************)
(* connect(max_attempts, allow_change_dsn, reprompt_username)              *)
(***************************************************************************)
PairRet(c, k) == [kind |-> "pair", conn |-> c, cursor |-> k]

\* an off-by-one loop condition
LoopContinues_Mutant(att, max) == att <= max

\* while attempts < max_attempts  (line 85)
LoopContinues(att, max) == att < max

\* the break taken on "y" instead of "n"
IsNo_Mutant(answer) == StrLower(StrStrip(answer)) = << "y" >>

\* retry == "n" after .strip().lower()  (lines 104-105)
IsNo(answer) == StrLower(StrStrip(answer)) = << "n" >>

\* change_dsn == "y" after .strip().lower()  (lines 109-110)
IsYes(answer) == StrLower(StrStrip(answer)) = << "y" >>

\* the user name asked for on every re-prompt
CredPc_Mutant(prompt_username) == "username"

\* first prompt of _prompt_credentials(prompt_username)  (lines 64-66)
CredPc(prompt_username) == IF prompt_username THEN "username" ELSE "password"

\* the call itself: arguments bound, attempts = 0  (line 84)
ConnectCall(m, a, r) ==
    /\ pc = "idle"
    /\ ncalls < MaxCalls
    /\ m <= (IF ncalls = 0 THEN MaxAttemptsArg ELSE MaxAttemptsAgain)
    /\ ncalls' = ncalls + 1
    /\ max_attempts' = m
    /\ allow_change_dsn' = a
    /\ reprompt_username' = r
    /\ attempts' = 0
    /\ pc' = "loop"
    /\ ret' = NoRet
    /\ EmitFirst(<< >>, << >>)
    /\ prompts' = NoPrompts
    /\ saidNo' = FALSE
    /\ UNCHANGED << dsn, username, password, conn, cursor, sources, openConns, nextId >>

\* lines 120-122: the epilogue after the loop
Epilogue ==
    /\ Emit(<< << "error", "Exhausted connection attempts without success." >> >>, << >>)
    /\ ret' = PairRet(None, None)
    /\ pc' = "idle"

\* the log record of the except clause that catches an error of kind k
ErrorRecord(k, att) ==
    IF k = "pyodbc.Error"
    THEN << "error", "ODBC error on attempt", att, k >>
    ELSE << "error", "Unexpected error on attempt", att, k >>

ErrorKinds == { "pyodbc.Error", "Exception" }

\* where a failed attempt goes: lines 102-104, whatever the attempt number
AfterFailurePc(att, max) == "retry"

\* the cursor dropped from the returned pair
SuccessRet_Mutant(c, k) == PairRet(c, None)

\* what connect returns on success: line 95
SuccessRet(c, k) == PairRet(c, k)

\* self.conn after pyodbc.connect returned c and conn.cursor() raised:
\* the assignment of line 92 stands
ConnAfterCursorError(old, c) == c

\* the connection string written to the debug record
AttemptRecord_Mutant(att, d, u, p) ==
    << "debug", "Attempting connection", att, d, u, ConnStr(d, u, p) >>

\* the debug record of lines 89-91: attempt number, DSN and user name
AttemptRecord(att, d, u, p) == << "debug", "Attempting connection", att, d, u >>

\* the attempt counter left where it was
AttemptsIncr_Mutant(att) == att

\* attempts += 1  (line 86)
AttemptsIncr(att) == att + 1

\* One iteration of the loop up to its first suspension point, lines 85-104:
\* the attempt, and on failure the "Connection failed." message and the
\* retry question.
ConnectAttempt ==
    /\ pc = "loop"
    /\ LoopContinues(attempts, max_attempts)
    /\ attempts' = AttemptsIncr(attempts)
    /\ LET att == AttemptsIncr(attempts)
           dbg == AttemptRecord(att, dsn, username, password)
           opn == << "connect", ConnStr(dsn, username, password) >>
           fpc == AfterFailurePc(att, max_attempts)
       IN  \/ \* pyodbc.connect raises
              \E k \in ErrorKinds :
                /\ Emit(<< dbg, ErrorRecord(k, att) >>, << opn >>)
                /\ pc' = fpc
                /\ prompts' = IF fpc = "retry" THEN Prompted(prompts, "retry") ELSE prompts
                /\ UNCHANGED << conn, cursor, openConns, nextId, ret >>
           \/ \* pyodbc.connect returns, conn.cursor() raises
              \E k \in ErrorKinds :
                /\ Emit(<< dbg, ErrorRecord(k, att) >>, << opn, << "cursor", nextId >> >>)
                /\ conn' = ConnAfterCursorError(conn, nextId)
                /\ openConns' = openConns \cup { nextId }
                /\ nextId' = nextId + 1
                /\ pc' = fpc
                /\ prompts' = IF fpc = "retry" THEN Prompted(prompts, "retry") ELSE prompts
                /\ UNCHANGED << cursor, ret >>
           \/ \* both succeed: lines 92-95
              /\ Emit(<< dbg, << "info", "Connected", dsn, att >> >>,
                      << opn, << "cursor", nextId >> >>)
              /\ conn' = nextId
              /\ cursor' = nextId
              /\ openConns' = openConns \cup { nextId }
              /\ nextId' = nextId + 1
              /\ ret' = SuccessRet(nextId, nextId)
              /\ pc' = "idle"
              /\ UNCHANGED prompts
    /\ UNCHANGED << dsn, username, password, sources, max_attempts,
                    allow_change_dsn, reprompt_username, ncalls, saidNo >>

\* the loop condition is false: lines 85, 120-122
ConnectExhausted ==
    /\ pc = "loop"
    /\ ~ LoopContinues(attempts, max_attempts)
    /\ Epilogue
    /\ UNCHANGED << dsn, username, password, conn, cursor, sources, attempts,
                    max_attempts, allow_change_dsn, reprompt_username,
                    prompts, openConns, nextId, ncalls, saidNo >>

\* what the user typed reads as "n" (the prompt is "[Y/n]": case and
\* surrounding blanks are the terminal's, not the answer's)
SaysNo(answer) == StrLower(StrStrip(answer)) = << "n" >>

\* the reselection question asked whatever allow_change_dsn is
AsksChange_Mutant(allow) == TRUE

\* `if allow_change_dsn:` (line 108)
AsksChange(allow) == allow

\* the answer to "Retry? [Y/n]": lines 104-109 / 118
RetryAnswer(answer) ==
    /\ pc = "retry"
    /\ saidNo' = (saidNo \/ SaysNo(answer))
    /\ IF IsNo(answer)
       THEN /\ Epilogue
            /\ UNCHANGED prompts
       ELSE /\ IF AsksChange(allow_change_dsn)
               THEN /\ pc' = "change"
                    /\ prompts' = Prompted(prompts, "change")
               ELSE /\ pc' = CredPc(reprompt_username)
                    /\ prompts' = Prompted(prompts, CredPc(reprompt_username))
            /\ Emit(<< >>, << >>)
            /\ UNCHANGED ret
    /\ UNCHANGED << dsn, username, password, conn, cursor, sources, attempts,
                    max_attempts, allow_change_dsn, reprompt_username,
                    openConns, nextId, ncalls >>

\* the identifier cleared before the reselection is tried
DsnAfterSelectError_Mutant(d) == << >>

\* self.dsn when _select_dsn raised: the assignment of line 112 did not happen
DsnAfterSelectError(d) == d

\* the answer to "Change DSN as well? [y/N]": lines 109-118, and the start
\* of _select_dsn (lines 37-49) when the answer is yes
ChangeAnswer(answer) ==
    /\ pc = "change"
    /\ IF IsYes(answer)
       THEN IF sources = << >>
            THEN \* RuntimeError of line 41, caught at line 113
                 /\ Emit(<< << "error", "Unable to change DSN after failure", "RuntimeError" >> >>,
                         << << "dataSources" >> >>)
                 /\ dsn' = DsnAfterSelectError(dsn)
                 /\ pc' = CredPc(reprompt_username)
                 /\ prompts' = Prompted(prompts, CredPc(reprompt_username))
            ELSE /\ Emit(<< >>, << << "dataSources" >> >>)
                 /\ pc' = "select"
                 /\ prompts' = Prompted(prompts, "select")
                 /\ UNCHANGED dsn
       ELSE /\ Emit(<< >>, << >>)
            /\ pc' = CredPc(reprompt_username)
            /\ prompts' = Prompted(prompts, CredPc(reprompt_username))
            /\ UNCHANGED dsn
    /\ UNCHANGED << username, password, conn, cursor, sources, attempts,
                    max_attempts, allow_change_dsn, reprompt_username, ret,
                    openConns, nextId, ncalls, saidNo >>

\* the first entry not selectable
ValidSelection_Mutant(sel, n) == 0 < sel /\ sel < n

\* 0 <= selection < len(dsn_list)  (line 50)
ValidSelection(sel, n) == 0 <= sel /\ sel < n

\* one input line of the loop of _select_dsn: lines 47-57, then 112 and 118
SelectInput(line) ==
    /\ pc = "select"
    /\ LET r == IntParse(line)
       IN  IF r.ok /\ ValidSelection(r.val, Len(sources))
           THEN /\ dsn' = sources[r.val + 1][1]
                /\ Emit(<< << "info", "User selected DSN", sources[r.val + 1][1] >> >>, << >>)
                /\ pc' = CredPc(reprompt_username)
                /\ prompts' = Prompted(prompts, CredPc(reprompt_username))
           ELSE /\ prompts["select"] < MaxSelectInputs
                /\ Emit(<< >>, << >>)
                /\ prompts' = Prompted(prompts, "select")
                /\ UNCHANGED << dsn, pc >>
    /\ UNCHANGED << username, password, conn, cursor, sources, attempts,
                    max_attempts, allow_change_dsn, reprompt_username, ret,
                    openConns, nextId, ncalls, saidNo >>

\* _prompt_credentials, line 65
UsernameInput(line) ==
    /\ pc = "username"
    /\ username' = StrStrip(line)
    /\ pc' = "password"
    /\ prompts' = Prompted(prompts, "password")
    /\ Emit(<< >>, << >>)
    /\ UNCHANGED << dsn, password, conn, cursor, sources, attempts,
                    max_attempts, allow_change_dsn, reprompt_username, ret,
                    openConns, nextId, ncalls, saidNo >>

\* _prompt_credentials, line 66, and back to the loop condition
PasswordInput(line) ==
    /\ pc = "password"
    /\ password' = line
    /\ pc' = "loop"
    /\ Emit(<< >>, << >>)
    /\ UNCHANGED << dsn, username, conn, cursor, sources, attempts,
                    max_attempts, allow_change_dsn, reprompt_username, ret,
                    prompts, openConns, nextId, ncalls, saidNo >>

(***************************************************************************)
(* query_dataframe(sql), lines 124-132.  pandas is taken to be importable. *)
(***************************************************************************)
\* the connection check left out
HasConnection_Mutant(c) == TRUE

\* `if not self.conn` is false  (line 130)
HasConnection(c) == c # None

QueryDataframe(sql) ==
    /\ pc = "idle"
    /\ ncalls < MaxCalls
    /\ ncalls' = ncalls + 1
    /\ prompts' = NoPrompts
    /\ saidNo' = FALSE
    /\ IF ~ HasConnection(conn)
       THEN /\ ret' = [kind |-> "NotConnectedError", conn |-> None, cursor |-> None]
            /\ EmitFirst(<< >>, << >>)
       ELSE /\ EmitFirst(<< >>, << << "read_sql", sql, conn >> >>)
            /\ \/ /\ conn \in openConns
                  /\ ret' = [kind |-> "table", conn |-> conn, cursor |-> None]
               \/ ret' = [kind |-> "driver_error", conn |-> conn, cursor |-> None]
    /\ UNCHANGED << dsn, username, password, conn, cursor, sources, pc, attempts,
                    max_attempts, allow_change_dsn, reprompt_username,
                    openConns, nextId >>

(***************************************************************************)
(* close(), lines 134-146.  curRaises / connRaises: whether the driver's   *)
(* Cursor.close() / Connection.close() raises when it is called.           *)
(***************************************************************************)
\* the references as close() leaves them: the code assigns neither
ConnAfterClose(c) == c
CursorAfterClose(k) == k

\* an except clause that lets the error out
CloseOutcome_Mutant(raised) == IF raised THEN "close_raised" ELSE "closed"

\* how close() ends when one of the driver's close calls raised or none
\* did: `except Exception` (line 145) swallows the error
CloseOutcome(raised) == "closed"

\* whether Connection.close() is still reached after Cursor.close() raised:
\* both calls share one try block (lines 138-144), so it is not
ConnCloseReached(cursorCloseRaised) == ~ cursorCloseRaised

Outcome(raises) == IF raises THEN "raised" ELSE "returned"

Close(curRaises, connRaises) ==
    /\ pc = "idle"
    /\ ncalls < MaxCalls
    /\ ncalls' = ncalls + 1
    /\ prompts' = NoPrompts
    /\ saidNo' = FALSE
    /\ LET curCall  == IF cursor # None
                       THEN << << "cursor.close", cursor, Outcome(curRaises) >> >> ELSE << >>
           curFail  == cursor # None /\ curRaises
           curLog   == IF cursor # None /\ ~ curRaises
                       THEN << << "info", "Cursor closed." >> >> ELSE << >>
           reached  == ConnCloseReached(curFail) /\ conn # None
           connCall == IF reached
                       THEN << << "conn.close", conn, Outcome(connRaises) >> >> ELSE << >>
           connFail == reached /\ connRaises
           connOk   == reached /\ ~ connRaises
           connLog  == IF connOk THEN << << "info", "Connection closed." >> >> ELSE << >>
           errLog   == IF curFail \/ connFail
                       THEN << << "error", "Error closing resources", "Exception" >> >>
                       ELSE << >>
       IN  /\ EmitFirst(curLog \o connLog \o errLog, curCall \o connCall)
           /\ ret' = [kind |-> CloseOutcome(curFail \/ connFail), conn |-> None, cursor |-> None]
           /\ openConns' = IF connOk THEN openConns \ { conn } ELSE openConns
    /\ conn' = ConnAfterClose(conn)
    /\ cursor' = CursorAfterClose(cursor)
    /\ UNCHANGED << dsn, username, password, sources, pc, attempts,
                    max_attempts, allow_change_dsn, reprompt_username, nextId >>

(***************************************************************************)
(* The specification.                                                      *)
(***************************************************************************)
Next ==
    \/ \E m \in (0 - 1)..(MaxAttemptsArg + MaxAttemptsAgain), a \in BOOLEAN, r \in BOOLEAN :
          ConnectCall(m, a, r)
    \/ ConnectAttempt
    \/ ConnectExhausted
    \/ \E answer \in RetryInputs : RetryAnswer(answer)
    \/ \E answer \in ChangeInputs : ChangeAnswer(answer)
    \/ \E line \in SelectInputs : SelectInput(line)
    \/ \E line \in UsernameInputs : UsernameInput(line)
    \/ \E line \in PasswordInputs : PasswordInput(line)
    \/ \E sql \in Queries : QueryDataframe(sql)
    \/ \E cr \in BOOLEAN, nr \in BOOLEAN : Close(cr, nr)

Spec == Init /\ [][Next]_vars

(***************************************************************************)
(* connect runs synchronously on the caller's thread: once called, its     *)
(* next statement is executed, and each input()/getpass() returns once     *)
(* the user has answered.  Whether and when the caller makes its next      *)
(* call is left open.                                                      *)
(***************************************************************************)
ConnectStep ==
    \/ ConnectAttempt
    \/ ConnectExhausted
    \/ \E answer \in RetryInputs : RetryAnswer(answer)
    \/ \E answer \in ChangeInputs : ChangeAnswer(answer)
    \/ \E line \in SelectInputs : SelectInput(line)
    \/ \E line \in UsernameInputs : UsernameInput(line)
    \/ \E line \in PasswordInputs : PasswordInput(line)

\* the same program, one API call fewer per manager
LiveNext ==
    \/ \E m \in (0 - 1)..(MaxAttemptsArg + MaxAttemptsAgain), a \in BOOLEAN, r \in BOOLEAN :
          ncalls + 1 < MaxCalls /\ ConnectCall(m, a, r)
    \/ ConnectStep
    \/ \E sql \in Queries : ncalls + 1 < MaxCalls /\ QueryDataframe(sql)
    \/ \E cr \in BOOLEAN, nr \in BOOLEAN : ncalls + 1 < MaxCalls /\ Close(cr, nr)

LiveSpec == Init /\ [][LiveNext]_vars /\ WF_vars(ConnectStep)

(***************************************************************************)
(* Properties.                                                             *)
(***************************************************************************)
PromptPcs == { "retry", "change", "select", "username", "password" }
QueryRets == { "NotConnectedError", "table", "driver_error" }
ConnectReturned == pc = "idle" /\ ret.kind = "pair"
SelectFailed == "Unable to change DSN after failure"

\* C1: in every reachable state the stored connection and the stored cursor
\* are both present or both absent.
C1_BothOrNeither == (conn = None) <=> (cursor = None)

\* C2: when connect (max_attempts = k >= 1) has returned, no attempt of the
\* call succeeded and the user never answered "n", the driver's open was
\* called exactly k times and the result is (None, None).
C2_ExactlyKAttempts ==
    ( /\ ConnectReturned
      /\ max_attempts >= 1
      /\ logged["Connected"] = 0
      /\ ~ saidNo )
    => ( /\ called["connect"] = max_attempts
         /\ ret = PairRet(None, None) )

C2_Witness ==
    /\ ConnectReturned
    /\ max_attempts = 2
    /\ logged["Connected"] = 0
    /\ ~ saidNo
    /\ called["connect"] = 2
    /\ called["cursor"] = 0
    /\ ret = PairRet(None, None)

\* C3: once an attempt of connect has succeeded (attempt j = attempts), the
\* call has returned the stored (connection, cursor) pair, both present, and
\* made one open call per attempt up to j, one retry question per failed
\* attempt before j, and nothing after attempt j.
C3_SuccessReturnsAtOnce ==
    (logged["Connected"] > 0)
    => ( /\ pc = "idle"
         /\ ret = PairRet(conn, cursor)
         /\ conn # None
         /\ cursor # None
         /\ logged["Connected"] = 1
         /\ attempts <= max_attempts
         /\ called["connect"] = attempts
         /\ prompts["retry"] = attempts - 1
         /\ logged["Exhausted connection attempts without success."] = 0 )

C3_Witness ==
    /\ logged["Connected"] = 1
    /\ attempts = 1
    /\ max_attempts = 2
    /\ ret = PairRet(conn, cursor)
    /\ conn # None

\* C4: when the user answered "n" to the retry question after the first
\* failed attempt, connect has returned (None, None) after exactly one open
\* call, without a reselection question, a selector run or a credential
\* prompt, whatever max_attempts is.
C4_NoAfterFirstFailure ==
    (saidNo /\ attempts = 1)
    => ( /\ pc = "idle"
         /\ ret = PairRet(None, None)
         /\ called["connect"] = 1
         /\ called["dataSources"] = 0
         /\ prompts["retry"] = 1
         /\ prompts["change"] = 0
         /\ prompts["select"] = 0
         /\ prompts["username"] = 0
         /\ prompts["password"] = 0 )

C4_Witness ==
    /\ saidNo
    /\ attempts = 1
    /\ max_attempts = 2
    /\ allow_change_dsn
    /\ ret = PairRet(None, None)
    /\ called["connect"] = 1

\* C5: after the failure of the final attempt (attempts = max_attempts)
\* connect is at no prompt: no retry question, no reselection question, no
\* selector input and no credential prompt.
C5_FinalFailureExits == (pc \in PromptPcs) => (attempts < max_attempts)

\* C6: a close() directly after a close() is a no-op: no driver call, no log
\* record, no change of the manager or of the driver's connections.
C6_SecondCloseNoOp ==
    [][ (ret.kind = "closed" /\ ret'.kind = "closed" /\ ncalls' = ncalls + 1)
        => ( /\ drvCalls' = << >>
             /\ log' = << >>
             /\ UNCHANGED << conn, cursor, openConns >> ) ]_vars

C8_CloseClearsReferences == (ret.kind = "closed") => (conn = None /\ cursor = None)

\* C9: when the first connect on a new manager has returned (None, None),
\* the stored connection and the stored cursor are both absent.
C9_FailedConnectStaysUnconnected ==
    (ConnectReturned /\ ncalls = 1 /\ ret = PairRet(None, None))
    => (conn = None /\ cursor = None)

\* C10: the step in which the reselection fails (the selector raises) does
\* not end connect, leaves self.dsn as it was and goes on to the credential
\* prompt.
C10_SelectFailureKeepsDsn ==
    [][ (logged'[SelectFailed] > logged[SelectFailed])
        => ( /\ dsn' = dsn
             /\ ret' = NoRet
             /\ pc' = CredPc(reprompt_username)
             /\ prompts'[pc'] = prompts[pc'] + 1 ) ]_vars

\* a failed reselection, the credentials entered, the next attempt due
C10_Witness ==
    /\ logged[SelectFailed] > 0
    /\ pc = "loop"
    /\ attempts < max_attempts
    /\ ret = NoRet

CloseRets == { "closed", "close_raised" }
\* a driver close call of the last step raised
CloseCallRaised == \E i \in 1..Len(drvCalls) : Len(drvCalls[i]) = 3 /\ drvCalls[i][3] = "raised"

\* C11: close() returns normally whatever the cursor and the connection are
\* and whichever of the driver's close calls raises, and a close call that
\* raised is recorded in the log as an error.
C11_CloseNeverRaises ==
    (ret.kind \in CloseRets)
    => ( /\ ret.kind = "closed"
         /\ CloseCallRaised
              => ( /\ logged["Error closing resources"] = 1
                   /\ log[Len(log)] = << "error", "Error closing resources", "Exception" >> ) )

\* the connection's close raised after the cursor's close returned
C11_Witness ==
    /\ ret.kind = "closed"
    /\ Len(drvCalls) = 2
    /\ drvCalls[1][3] = "returned"
    /\ drvCalls[2][3] = "raised"
    /\ logged["Error closing resources"] = 1

\* C17: when close() has returned on a manager that stores a connection,
\* Connection.close() was called on it.
C17_CloseClosesConnection ==
    (ret.kind \in CloseRets /\ conn # None) => (called["conn.close"] = 1)

\* the texts a log record interpolates (DSN, user name, and whatever else
\* an attempt record carries)
LogTexts(rec) ==
    IF rec[2] = "Attempting connection" THEN { rec[i] : i \in 4..Len(rec) }
    ELSE IF rec[2] \in { "Connected", "User selected DSN" } THEN { rec[3] }
    ELSE { }

\* text t has w as a substring
Contains(t, w) == \E i \in 1..(Len(t) - Len(w) + 1) : SubSeq(t, i, i + Len(w) - 1) = w

\* C12: no record written to the log contains the stored password or any
\* password that was or can be entered.
C12_PasswordNeverLogged ==
    \A i \in 1..Len(log) : \A t \in LogTexts(log[i]) :
        \A pw \in PasswordInputs \cup { password } : ~ Contains(t, pw)

\* the records of a second attempt, made with a password that was re-entered
C12_Witness ==
    /\ attempts = 2
    /\ password = << "q" >>
    /\ Len(log) = 2
    /\ log[1] = << "debug", "Attempting connection", 2, dsn, username >>

Selected == "User selected DSN"

\* C13: with no data source the selector fails before any input is read
\* (no selector prompt ever appears); with N >= 1 sources an input line ends
\* the selector exactly when it parses as an integer i with 0 <= i < N, the
\* identifier chosen is then the one at index i of the enumeration, and
\* every other line (not an integer, negative, too large) costs exactly one
\* more prompt and changes nothing.
C13_SelectorContract ==
    /\ [](sources = << >> => (prompts["select"] = 0 /\ logged[Selected] = 0))
    /\ [][ (sources = << >> /\ called'["dataSources"] > called["dataSources"])
           => ( /\ logged'[SelectFailed] = logged[SelectFailed] + 1
                /\ prompts'["select"] = prompts["select"]
                /\ dsn' = dsn ) ]_vars
    /\ [][ \A line \in SelectInputs :
             SelectInput(line)
             => LET r == IntParse(line)
                IN  IF r.ok /\ 0 <= r.val /\ r.val < Len(sources)
                    THEN /\ pc' # "select"
                         /\ dsn' = sources[r.val + 1][1]
                         /\ log' = << << "info", "User selected DSN", sources[r.val + 1][1] >> >>
                         /\ prompts'["select"] = prompts["select"]
                    ELSE /\ pc' = "select"
                         /\ dsn' = dsn
                         /\ log' = << >>
                         /\ prompts'["select"] = prompts["select"] + 1 ]_vars

\* one invalid line, then the second source chosen
C13_Witness ==
    /\ prompts["select"] = 2
    /\ logged[Selected] = 1
    /\ Len(sources) = 2
    /\ dsn = DsnB
    /\ pc \in { "username", "password" }

\* a connect call is running or was the last call to finish
InConnect == ncalls >= 1 /\ ret.kind \in { "none", "pair" }

\* C14: during and after a connect called with allow_change_dsn = False the
\* reselection question was never asked, the selector never ran (no
\* enumeration, no selector prompt), no DSN selection or selection failure
\* was logged, and no step of the call changes self.dsn.
C14_NoReselectionWhenDisallowed ==
    /\ []( (InConnect /\ ~ allow_change_dsn)
           => ( /\ prompts["change"] = 0
                /\ prompts["select"] = 0
                /\ called["dataSources"] = 0
                /\ logged[Selected] = 0
                /\ logged[SelectFailed] = 0 ) )
    /\ [][ (~ allow_change_dsn' /\ (pc # "idle" \/ pc' # "idle")) => dsn' = dsn ]_vars

\* a failed attempt, a retry, then success, all without reselection
C14_Witness ==
    /\ ConnectReturned
    /\ ~ allow_change_dsn
    /\ attempts = 2
    /\ logged["attempt failed"] = 1
    /\ logged["Connected"] = 1
    /\ logged[Selected] = 0
    /\ prompts["password"] = 1

\* C15: when connect is back at its loop condition, every failed attempt the
\* user continued after has been followed by exactly one password prompt,
\* and by exactly one user name prompt if reprompt_username is true and by
\* none if it is false; with reprompt_username false no step of the call
\* changes self.username.
C15_RepromptsSecretOncePerRetry ==
    /\ []( (pc = "loop")
           => ( /\ prompts["retry"] = attempts
                /\ prompts["password"] = attempts
                /\ prompts["username"] = IF reprompt_username THEN attempts ELSE 0 ) )
    /\ []( (InConnect /\ ~ reprompt_username) => prompts["username"] = 0 )
    /\ [][ (~ reprompt_username' /\ (pc # "idle" \/ pc' # "idle"))
           => username' = username ]_vars

\* back at the loop after one failure, both credentials asked again
C15_Witness ==
    /\ pc = "loop"
    /\ attempts = 1
    /\ reprompt_username
    /\ prompts["username"] = 1
    /\ prompts["password"] = 1
    /\ username = << "v" >>
    /\ password = << "q" >>

\* DSN=<identifier>;UID=<username>;PWD=<password>
WireFormat(id, user, secret) ==
    << "D", "S", "N", "=" >> \o id \o << ";" >>
        \o << "U", "I", "D", "=" >> \o user \o << ";" >>
        \o << "P", "W", "D", "=" >> \o secret

\* C16: every attempt hands the driver the string
\* DSN=<identifier>;UID=<username>;PWD=<password> built from the identifier,
\* user name and password the manager holds when the attempt starts; those
\* are the password line entered at the preceding password prompt, the user
\* name line (surrounding blanks removed) entered at the preceding user name
\* prompt, and the identifier picked by the preceding valid selection, and
\* the attempt is the very next step after the password prompt.
C16_ConnStrFromCurrentValues ==
    /\ [][ (attempts' = attempts + 1)
           => ( /\ called'["connect"] = called["connect"] + 1
                /\ drvCalls'[1] = << "connect", WireFormat(dsn, username, password) >> ) ]_vars
    /\ [][ \A line \in PasswordInputs :
             PasswordInput(line) => (password' = line /\ pc' = "loop") ]_vars
    /\ [][ \A line \in UsernameInputs :
             UsernameInput(line) => (username' = StrStrip(line) /\ pc' = "password") ]_vars
    /\ [][ \A line \in SelectInputs :
             (SelectInput(line) /\ pc' # "select")
             => dsn' = sources[IntParse(line).val + 1][1] ]_vars
    /\ [][ (pc = "loop") => (pc' \in { "idle", "retry" }) ]_vars

\* the second attempt, made after reselecting B and entering v and q
C16_Witness ==
    /\ attempts = 2
    /\ logged[Selected] = 1
    /\ prompts["username"] = 1
    /\ Len(drvCalls) >= 1
    /\ drvCalls[1] = << "connect",
                        << "D","S","N","=","B",";","U","I","D","=","v",";","P","W","D","=","q" >> >>

\* C18: every connection the driver opened for the manager and that has not
\* been closed is the connection the manager stores.
C18_NoLeak == openConns \subseteq { conn }

\* C19: a connect call never makes more than max(0, max_attempts) driver open
\* calls; with max_attempts <= 0 it makes none, asks nothing and returns
\* (None, None); the only step of connect that stays where it is is the
\* selector's rejection of an input line, and every pass through the loop
\* advances the attempt counter towards max_attempts; and, every prompt
\* being answered and the selector receiving a valid index after finitely
\* many lines, every connect call returns.
C19_ConnectTerminates ==
    /\ []( InConnect
           => called["connect"] <= (IF max_attempts > 0 THEN max_attempts ELSE 0) )
    /\ []( (InConnect /\ max_attempts <= 0)
           => ( /\ prompts = NoPrompts
                /\ called = NoneCalled
                /\ pc \in { "loop", "idle" }
                /\ ret \in { NoRet, PairRet(None, None) } ) )
    /\ [][ (pc # "idle" /\ pc' = pc) => pc = "select" ]_vars
    /\ [][ (pc = "loop" /\ pc' # "idle")
           => (attempts' = attempts + 1 /\ attempts' <= max_attempts) ]_vars
    /\ (pc # "idle") ~> (pc = "idle")

\* a call that used its whole budget after a reselection with a rejected line
C19_Witness ==
    /\ ConnectReturned
    /\ ret = PairRet(None, None)
    /\ max_attempts = 2
    /\ called["connect"] = 2
    /\ prompts["select"] = 2
    /\ logged[Selected] = 1

\* a call with a negative budget, returned
C19_WitnessNoBudget ==
    /\ ConnectReturned
    /\ max_attempts < 0
    /\ called["connect"] = 0
    /\ ret = PairRet(None, None)

====
